---- MODULE Spec2Model ----
(***************************************************************************)
(* A model of tagreader's ODBC handlers (src/tagreader/odbc_handlers.py):  *)
(* the Aspen IP.21 and PI query builders, the metadata lookups and the     *)
(* normalisation of the rows a read returns.                               *)
(*                                                                         *)
(* Conventions.  An optional Python value is a sequence of length at most  *)
(* one: None is << >> and a value v is <<v>>.  A dict is a function from   *)
(* its keys.  A query is the list of fragments the code joins with " ".    *)
(* Time is counted in ticks of 1/TicksPerSecond second, so that            *)
(* int(sample_time.total_seconds()) truncates.                             *)
(***************************************************************************)
EXTENDS Integers, Sequences, FiniteSets, TLC

VARIABLES
    handler,    \* the class of the session: "aspen" or "pi"
    atmapdef,   \* the mapping definitions the Aspen backend holds for a tag
    conn,       \* self.conn: None or an open connection
    cursor,     \* self.cursor: None or an open cursor
    pc,         \* "idle": no call in progress; "done": a call has ended
    call,       \* the operation last called and its arguments
    reply,      \* what the backend answered to the queries of that call
    executed,   \* the queries that call executed, in order
    outcome,    \* "returned" or "raised"
    error,      \* the exception raised
    result      \* the value returned

vars ==
    <<handler, atmapdef, conn, cursor, pc, call, reply, executed, outcome,
      error, result>>

----------------------------------------------------------------------------
(* Bounds of the model *)

MaxRows == 2

TicksPerSecond == 2

----------------------------------------------------------------------------
(* Python values *)

None == << >>

Some(v) == <<v>>

IsNone(o) == o = << >>

EmptyDict == << >>

DictGet(d, k, default) == IF k \in DOMAIN d THEN d[k] ELSE default

Range(s) == {s[i] : i \in DOMAIN s}

----------------------------------------------------------------------------
(* utils.ReaderType *)

ReaderType ==
    {"RAW", "SHAPEPRESERVING", "INT", "MIN", "MAX", "RNG", "AVG", "VAR",
     "STD", "COUNT", "GOOD", "NOTGOOD", "TOTAL", "SUM", "SAMPLED", "SNAPSHOT"}

BAD == "NOTGOOD"

----------------------------------------------------------------------------
(* Timestamps and durations *)

\* A timezone-aware timestamp: the instant and the zone's offset, in ticks.
Timestamp(inst, off) == [inst |-> inst, off |-> off]

tz_convert_UTC(t) == [inst |-> t.inst, off |-> 0]

\* The wall-clock second strftime prints (sub-second digits are dropped).
WallSecond(t) == (t.inst + t.off) \div TicksPerSecond

\* int(sample_time.total_seconds()): truncation towards zero.
total_seconds_int(sample_time) ==
    IF sample_time >= 0
    THEN sample_time \div TicksPerSecond
    ELSE -((-sample_time) \div TicksPerSecond)

Pad2(n) == IF n < 10 THEN "0" \o ToString(n) ELSE ToString(n)

\* strftime("%Y-%m-%dT%H:%M:%SZ") of a timestamp within the first minute
\* of the epoch day.
strftime_aspen(t) == "1970-01-01T00:00:" \o Pad2(WallSecond(t)) \o "Z"

\* strftime("%d-%b-%y %H:%M:%S")
strftime_pi(t) == "01-Jan-70 00:00:" \o Pad2(WallSecond(t))

----------------------------------------------------------------------------
(* Results of a query builder *)

Raise(e) == [err |-> e, query |-> << >>]

Return(q) == [err |-> "none", query |-> q]

----------------------------------------------------------------------------
(* AspenHandlerODBC.generate_read_query *)

\* The read types both builders reject first.
UnsupportedTypes == {"COUNT", "GOOD", BAD, "TOTAL", "SUM", "SHAPEPRESERVING"}

\* Lines 120-131 with the default request code of the other table.
Aspen_request_num_default0(read_type) ==
    CASE read_type = "SAMPLED" -> "4"
      [] read_type = "SHAPEPRESERVING" -> "3"
      [] read_type = "INT" -> "7"
      [] read_type = "SNAPSHOT" -> "None"
      [] OTHER -> "0"

Aspen_request_num(read_type) ==
    CASE read_type = "SAMPLED" -> "4"
      [] read_type = "SHAPEPRESERVING" -> "3"
      [] read_type = "INT" -> "7"
      [] read_type \in {"COUNT", "GOOD", "TOTAL", "NOTGOOD"} -> "0"
      [] read_type = "SNAPSHOT" -> "None"
      [] OTHER -> "1"

Aspen_from_column(read_type, tag) ==
    CASE read_type \in {"SAMPLED", "SHAPEPRESERVING", "INT"} -> "history"
      [] read_type = "SNAPSHOT" -> "\"" \o tag \o "\""
      [] OTHER -> "aggregates"

Aspen_ts(read_type, tag, mapdef) ==
    IF Aspen_from_column(read_type, tag) = "aggregates" THEN "ts_start"
    ELSE IF read_type = "SNAPSHOT"
         THEN DictGet(mapdef, "MAP_CurrentTimeStamp", "IP_INPUT_TIME")
         ELSE "ts"

Aspen_value(read_type, mapdef) ==
    CASE read_type = "MIN" -> "min"
      [] read_type = "MAX" -> "max"
      [] read_type = "RNG" -> "rng"
      [] read_type = "AVG" -> "avg"
      [] read_type = "VAR" -> "var"
      [] read_type = "STD" -> "std"
      [] read_type = "GOOD" -> "good"
      [] read_type = "NOTGOOD" -> "ng"
      [] read_type \in {"TOTAL", "SUM"} -> "sum"
      [] read_type = "SNAPSHOT" ->
             DictGet(mapdef, "MAP_CurrentValue", "IP_INPUT_VALUE")
      [] OTHER -> "value"

Aspen_status(read_type, mapdef) ==
    IF read_type = "SNAPSHOT"
    THEN DictGet(mapdef, "MAP_CurrentQuality", "IP_INPUT_QUALITY")
    ELSE "status"

\* Lines 106-115 without the reset of seconds for SAMPLED.
Aspen_seconds_sampled_kept(sample_time, read_type) ==
    IF read_type = "SNAPSHOT" THEN 0 ELSE total_seconds_int(sample_time)

\* seconds, as lines 106-115 leave it when they do not raise.
Aspen_seconds(sample_time, read_type) ==
    IF read_type = "SNAPSHOT" \/ read_type = "SAMPLED" THEN 0
    ELSE total_seconds_int(sample_time)

\* Lines 166-188: the fragments of the query, in order.
Aspen_query_text(tag, md, start_time, stop_time, seconds, read_type, get_status) ==
    LET ts == Aspen_ts(read_type, tag, md)
        value == Aspen_value(read_type, md)
        status == Aspen_status(read_type, md)
        select == <<"SELECT ISO8601(" \o ts \o ") AS \"time\", "
                    \o value \o " AS \"value\"">>
        stat == IF get_status THEN <<", " \o status \o " AS \"status\"">>
                ELSE << >>
        from == <<"FROM " \o Aspen_from_column(read_type, tag)>>
        where ==
            IF read_type # "SNAPSHOT"
            THEN <<"WHERE name = '" \o tag \o "'">>
                 \o (IF DOMAIN md # {}
                     THEN <<"AND FIELD_ID = FT('" \o md["MAP_HistoryValue"]
                             \o "')">>
                     ELSE << >>)
                 \o (IF read_type # "RAW"
                     THEN <<"AND (period = " \o ToString(seconds * 10)
                             \o ")">>
                     ELSE << >>)
                 \o <<"AND (request = " \o Aspen_request_num(read_type)
                       \o ")",
                      "AND (ts BETWEEN '" \o strftime_aspen(start_time)
                       \o "' AND '" \o strftime_aspen(stop_time[1]) \o "')",
                      "ORDER BY ts">>
            ELSE << >>
    IN  select \o stat \o from \o where

\* Lines 100-104.
Aspen_snapshot_with_stop(read_type, stop_time) ==
    read_type = "SNAPSHOT" /\ ~IsNone(stop_time)

\* Lines 111-115: the builder raises when seconds <= 0, SAMPLED excepted.
Aspen_bad_seconds(sample_time, read_type) ==
    /\ read_type \notin {"SNAPSHOT", "SAMPLED"}
    /\ total_seconds_int(sample_time) <= 0

Aspen_generate_read_query(tag, mapdef, start_time, stop_time, sample_time, read_type, get_status) ==
    LET md == IF IsNone(mapdef) THEN EmptyDict ELSE mapdef[1]
    IN  IF read_type \in UnsupportedTypes THEN Raise("NotImplementedError")
        ELSE IF get_status /\ read_type = "SNAPSHOT"
        THEN Raise("NotImplementedError")
        ELSE IF Aspen_snapshot_with_stop(read_type, stop_time)
        THEN Raise("NotImplementedError")
        ELSE IF read_type # "SNAPSHOT" /\ IsNone(stop_time)
        THEN Raise("AttributeError")
        ELSE IF Aspen_bad_seconds(sample_time, read_type)
        THEN Raise("NotImplementedError")
        ELSE Return(Aspen_query_text(
                 tag, md,
                 IF read_type # "SNAPSHOT" THEN tz_convert_UTC(start_time)
                 ELSE start_time,
                 IF read_type # "SNAPSHOT"
                 THEN Some(tz_convert_UTC(stop_time[1])) ELSE stop_time,
                 Aspen_seconds(sample_time, read_type),
                 read_type, get_status))

----------------------------------------------------------------------------
(* PIHandlerODBC.generate_read_query *)

PI_source(read_type) ==
    CASE read_type = "INT" -> "[piarchive]..[piinterp2]"
      [] read_type = "MIN" -> "[piarchive]..[pimin]"
      [] read_type = "MAX" -> "[piarchive]..[pimax]"
      [] read_type = "RNG" -> "[piarchive]..[pirange]"
      [] read_type = "AVG" -> "[piarchive]..[piavg]"
      [] read_type \in {"VAR", "STD"} -> "[piarchive]..[pistd]"
      [] read_type \in {"GOOD", "NOTGOOD", "COUNT"} -> "[piarchive]..[picount]"
      [] read_type \in {"TOTAL", "SUM"} -> "[piarchive]..[pitotal]"
      [] read_type = "SNAPSHOT" -> "[piarchive]..[pisnapshot]"
      [] read_type = "SHAPEPRESERVING" -> "[piarchive]..[piplot]"
      [] OTHER -> "[piarchive]..[picomp2]"

PI_select(read_type, max_rows_) ==
    IF read_type = "VAR" THEN "SELECT POWER(CAST(value as FLOAT32), 2)"
    ELSE IF read_type = "GOOD" THEN "SELECT CAST(pctgood as FLOAT32)"
    ELSE IF read_type = BAD THEN "SELECT 100-CAST(pctgood as FLOAT32)"
    ELSE IF read_type = "RAW"
    THEN "SELECT TOP " \o ToString(max_rows_) \o " CAST(value as FLOAT32)"
    ELSE "SELECT CAST(value as FLOAT32)"

\* seconds, as lines 448-458 leave it.
PI_seconds(sample_time, read_type) ==
    IF read_type = "SNAPSHOT" \/ read_type = "SAMPLED" THEN 0
    ELSE total_seconds_int(sample_time)

\* Lines 504-517: the filter a read type adds.  The interval count divides
\* by seconds, which raises ZeroDivisionError when seconds is 0.
PI_type_filter(read_type, start_time, stop_time, seconds) ==
    IF read_type = "GOOD" THEN <<"AND questionable = FALSE">>
    ELSE IF read_type = "NOTGOOD" THEN <<"AND questionable = TRUE">>
    ELSE IF read_type = "SHAPEPRESERVING"
    THEN <<"AND (intervalcount = "
           \o ToString(((stop_time[1].inst - start_time.inst)
                        \div TicksPerSecond) \div seconds) \o ")">>
    ELSE IF read_type = "RAW" THEN << >>
    ELSE IF read_type \notin {"SNAPSHOT", "RAW"}
    THEN <<"AND (timestep = '" \o ToString(seconds) \o "s')">>
    ELSE << >>

\* Lines 460-522: the fragments of the query, in order.
PI_query_text(tag, start_time, stop_time, seconds, read_type, get_status, max_rows_) ==
    <<PI_select(read_type, max_rows_), "AS value,">>
    \o (IF get_status THEN <<"status, questionable, substituted,">>
        ELSE << >>)
    \o <<"time FROM " \o PI_source(read_type) \o " WHERE tag='" \o tag \o "'">>
    \o (IF read_type # "SNAPSHOT"
        THEN <<"AND (time BETWEEN '" \o strftime_pi(start_time) \o "' AND '"
               \o strftime_pi(stop_time[1]) \o "')">>
        ELSE << >>)
    \o PI_type_filter(read_type, start_time, stop_time, seconds)
    \o (IF read_type # "SNAPSHOT" THEN <<"ORDER BY time">> ELSE << >>)

\* The check of lines 432-440 left out.
PI_rejects_nothing(read_type) == FALSE

\* Lines 432-440: the read types the PI builder rejects.
PI_rejects(read_type) == read_type \in UnsupportedTypes

\* The check of lines 442-446 left out.
PI_snapshot_with_stop_unchecked(read_type, stop_time) == FALSE

\* Lines 442-446.
PI_snapshot_with_stop(read_type, stop_time) ==
    read_type = "SNAPSHOT" /\ ~IsNone(stop_time)

PI_generate_read_query(tag, start_time, stop_time, sample_time, read_type, get_status, max_rows_) ==
    IF PI_rejects(read_type) THEN Raise("NotImplementedError")
    ELSE IF PI_snapshot_with_stop(read_type, stop_time)
    THEN Raise("NotImplementedError")
    ELSE IF read_type # "SNAPSHOT" /\ IsNone(stop_time)
    THEN Raise("AttributeError")
    ELSE IF read_type = "SHAPEPRESERVING"
            /\ PI_seconds(sample_time, read_type) = 0
    THEN Raise("ZeroDivisionError")
    ELSE Return(PI_query_text(
             tag,
             IF read_type # "SNAPSHOT" THEN tz_convert_UTC(start_time)
             ELSE start_time,
             IF read_type # "SNAPSHOT"
             THEN Some(tz_convert_UTC(stop_time[1])) ELSE stop_time,
             PI_seconds(sample_time, read_type),
             read_type, get_status, max_rows_))

----------------------------------------------------------------------------
(* Data frames: the index (the "time" column), the set of column names and *)
(* one dict per row; tz records whether the index is timezone-aware.       *)

DataFrame(index, cols, data, tz) ==
    [index |-> index, cols |-> cols, data |-> data, tz |-> tz]

\* pd.DataFrame()
EmptyFrame == DataFrame(<< >>, {}, << >>, "naive")

\* pd.read_sql(query, conn, index_col="time", ...): the rows the backend
\* returned, indexed by their time column.
read_sql(rows, cols) ==
    DataFrame([i \in DOMAIN rows |-> rows[i].time], cols,
              [i \in DOMAIN rows |-> [c \in cols |-> rows[i][c]]], "naive")

tz_localize_UTC(d) == [d EXCEPT !.tz = "UTC"]

\* The positions of an index whose label differs from the given one.
RECURSIVE PositionsNot(_, _, _)
PositionsNot(index, label, i) ==
    IF i > Len(index) THEN << >>
    ELSE (IF index[i] # label THEN <<i>> ELSE << >>)
         \o PositionsNot(index, label, i + 1)

\* df.drop(label): every row whose index equals the label is removed.
drop_label(d, label) ==
    LET pos == PositionsNot(d.index, label, 1)
    IN  [d EXCEPT !.index = [k \in DOMAIN pos |-> d.index[pos[k]]],
                  !.data = [k \in DOMAIN pos |-> d.data[pos[k]]]]

drop_columns(d, names) ==
    [d EXCEPT !.cols = d.cols \ names,
              !.data = [i \in DOMAIN d.data |->
                           [c \in d.cols \ names |-> d.data[i][c]]]]

\* df.rename(columns={"value": tag, "status": tag + "::status"})
RenamedColumn(c, tag) ==
    IF c = "value" THEN tag
    ELSE IF c = "status" THEN tag \o "::status"
    ELSE c

rename(d, tag) ==
    LET old(n) == CHOOSE c \in d.cols : RenamedColumn(c, tag) = n
        new == {RenamedColumn(c, tag) : c \in d.cols}
    IN  [d EXCEPT !.cols = new,
                  !.data = [i \in DOMAIN d.data |->
                               [n \in new |-> d.data[i][old(n)]]]]

----------------------------------------------------------------------------
(* PIHandlerODBC: normalisation of a read *)

PI_is_summary(read_type) ==
    read_type \in {"AVG", "MIN", "MAX", "RNG", "STD", "VAR"}

\* Lines 605-606 without the shift of the index.
PI_drop_without_shift(d, sample_time) == drop_label(d, d.index[1])

\* Lines 605-606, for a frame with at least one row.
PI_shift_and_drop(d, sample_time) ==
    LET shifted == [d EXCEPT !.index =
                        [i \in DOMAIN d.index |-> d.index[i] - sample_time]]
    IN  drop_label(shifted, shifted.index[1])

\* df.replace(code, offset) on one cell: the cells to replace are found by
\* comparing the frame as read with each code in turn, and are then
\* overwritten in the order of the list.
\* df.replace(to_replace, value) on one cell: the cells to replace are found
\* by comparing the frame as read with each element of to_replace in turn,
\* and are then overwritten in the order of the lists.
RECURSIVE replace_cell(_, _, _, _, _)
replace_cell(orig, cur, to_replace, value, i) ==
    IF i > Len(to_replace) THEN cur
    ELSE replace_cell(orig,
                      IF orig = to_replace[i] THEN value[i] ELSE cur,
                      to_replace, value, i + 1)

\* The columns replace compares with numbers: the numeric ones, and the
\* boolean ones when the library compares True and False as 1 and 0.
ReplacedColumns(d, flags_numeric) ==
    IF flags_numeric THEN d.cols
    ELSE d.cols \ {"questionable", "substituted"}

replace(d, to_replace, value, flags_numeric) ==
    [d EXCEPT !.data =
        [i \in DOMAIN d.data |->
            [c \in d.cols |->
                IF c \in ReplacedColumns(d, flags_numeric)
                THEN replace_cell(d.data[i][c], d.data[i][c], to_replace,
                                  value, 1)
                ELSE d.data[i][c]]]]

\* Lines 615-617 with code and offset swapped.
PI_substitute_swapped(d, digitalset, flags_numeric) ==
    replace(d, [i \in DOMAIN digitalset |-> digitalset[i][2]],
            [i \in DOMAIN digitalset |-> digitalset[i][1]], flags_numeric)

\* Lines 615-617: code and offset are the columns of the rows fetched.
PI_substitute(d, digitalset, flags_numeric) ==
    replace(d, [i \in DOMAIN digitalset |-> digitalset[i][1]],
            [i \in DOMAIN digitalset |-> digitalset[i][2]], flags_numeric)

\* Lines 620-627.
PI_composite_status(row) ==
    row["questionable"] + 2 * (IF row["status"] # 0 THEN 1 ELSE 0)
    + 4 * row["substituted"]

PI_compose_status(d) ==
    drop_columns(
        [d EXCEPT !.data = [i \in DOMAIN d.data |->
             [d.data[i] EXCEPT !["status"] = PI_composite_status(d.data[i])]]],
        {"questionable", "substituted"})

----------------------------------------------------------------------------
(* AspenHandlerODBC: mapping definitions *)

\* str.lower() on the mapping names of the model.
Lower(name) ==
    CASE name = "M1" -> "m1"
      [] name = "AUX" -> "aux"
      [] OTHER -> name

Aspen_generate_query_get_mapdefs(tagname) ==
    <<"SELECT m.NAME, m.MAP_DefinitionRecord, m.MAP_IsDefault,",
      "m.MAP_Description, m.MAP_Units, m.MAP_Base, m.MAP_Range,",
      "m.MAP_CurrentValue, m.MAP_CurrentTimeStamp, m.MAP_CurrentQuality,",
      "m.MAP_HistoryValue FROM \"" \o tagname \o "\" t",
      "LEFT JOIN atmapdef m ON t.definition = m.MAP_DefinitionRecord">>

RECURSIVE FirstMapdef(_, _, _, _)
FirstMapdef(mapdefs, i, key, wanted) ==
    IF i > Len(mapdefs) THEN None
    ELSE IF (IF key = "NAME" THEN Lower(mapdefs[i][key]) ELSE mapdefs[i][key])
            = wanted
    THEN Some(mapdefs[i])
    ELSE FirstMapdef(mapdefs, i + 1, key, wanted)

\* The loop of _get_specific_mapdef over the rows _get_mapdefs returned.
Aspen_get_specific_mapdef(mapdefs, mapping) ==
    FirstMapdef(mapdefs, 1, "NAME", Lower(mapping))

\* The loop of _get_default_mapdef.
Aspen_get_default_mapdef(mapdefs) ==
    FirstMapdef(mapdefs, 1, "MAP_IsDefault", "TRUE")

\* tag.split(";"): a tag is the sequence of its parts.
TagString(tag) == IF Len(tag) = 1 THEN tag[1] ELSE tag[1] \o ";" \o tag[2]

Mapping(tag) == IF Len(tag) = 1 THEN None ELSE Some(tag[2])

\* df["status"].astype(int) on the characters the history table returns.
astype_int(ch) ==
    CASE ch = "0" -> 0
      [] ch = "1" -> 1
      [] ch = "4" -> 4

status_astype_int(d) ==
    [d EXCEPT !.data = [i \in DOMAIN d.data |->
         [d.data[i] EXCEPT !["status"] = astype_int(d.data[i]["status"])]]]

----------------------------------------------------------------------------
(* The requests and the backend's answers the model draws from *)

StartTime == Timestamp(2 * TicksPerSecond, TicksPerSecond)

StopTimes == {None, Some(Timestamp(8 * TicksPerSecond, TicksPerSecond))}

SampleTimes == {-1, 0, TicksPerSecond}

\* The Aspen builder truncates the interval to whole seconds: one more
\* interval, with a fraction of a second.
AspenSampleTimes == SampleTimes \cup {TicksPerSecond + 1}

AspenTags == {<<"T">>, <<"T", "m1">>, <<"T", "zz">>}

PITags == {<<"P">>}

MapM1 ==
    [NAME |-> "M1", MAP_IsDefault |-> "TRUE",
     MAP_HistoryValue |-> "IP_TREND_VALUE",
     MAP_CurrentValue |-> "IP_VALUE",
     MAP_CurrentTimeStamp |-> "IP_VALUE_TIME",
     MAP_CurrentQuality |-> "IP_VALUE_QUALITY",
     MAP_Units |-> "IP_ENG_UNITS", MAP_Description |-> "IP_DESCRIPTION"]

MapAux ==
    [NAME |-> "AUX", MAP_IsDefault |-> "FALSE",
     MAP_HistoryValue |-> "IP_AUX_TREND",
     MAP_CurrentValue |-> "IP_AUX_VALUE",
     MAP_CurrentTimeStamp |-> "IP_AUX_TIME",
     MAP_CurrentQuality |-> "IP_AUX_QUALITY",
     MAP_Units |-> "IP_AUX_UNITS", MAP_Description |-> "IP_AUX_DESC"]

MapdefTables ==
    {<< >>, <<MapM1>>, <<MapAux>>, <<MapM1, MapAux>>, <<MapAux, MapM1>>}

Values == {0, 1, 2}

\* (questionable, status, substituted) as the PI backend returns them.
StatusCells == {<<1, 0, 0>>, <<0, 7, 1>>}

AspenStatusChars == {"0", "4"}

FirstTime == 2 * TicksPerSecond

\* Timestamps in the order ORDER BY gives them; equal timestamps can occur.
TimeSeqs(n) ==
    {ts \in [1..n -> FirstTime..(FirstTime + n * TicksPerSecond)] :
        /\ n > 0 => ts[1] = FirstTime
        /\ \A i \in 1..(n - 1) : ts[i + 1] - ts[i] \in {0, TicksPerSecond}}

StatusColumns == {"status", "questionable", "substituted"}

PIColumns(get_status) ==
    IF get_status THEN {"value"} \cup StatusColumns ELSE {"value"}

PIResultSets(get_status) ==
    UNION {
      {[i \in 1..n |->
          [time |-> ts[i], value |-> vs[i], questionable |-> ss[i][1],
           status |-> ss[i][2], substituted |-> ss[i][3]]] :
        ts \in TimeSeqs(n), vs \in [1..n -> Values],
        ss \in [1..n -> IF get_status THEN StatusCells ELSE {<<0, 0, 0>>}]}
      : n \in 0..MaxRows}

AspenColumns(get_status) ==
    IF get_status THEN {"value", "status"} ELSE {"value"}

AspenResultSets(get_status) ==
    UNION {
      {[i \in 1..n |-> [time |-> ts[i], value |-> vs[i], status |-> ss[i]]] :
        ts \in TimeSeqs(n), vs \in [1..n -> Values],
        ss \in [1..n -> IF get_status THEN AspenStatusChars ELSE {"0"}]}
      : n \in 0..MaxRows}

\* The rows of pids for a digital set: its (code, offset) pairs, in either
\* order, or no row.
DigitalSets == {<< >>, <<<<0, 1>>, <<1, 5>>>>, <<<<1, 5>>, <<0, 1>>>>}

Metadatas == {None, Some([digitalset |-> ""]), Some([digitalset |-> "DS"])}

----------------------------------------------------------------------------
(* The session and its operations *)

max_rows == 100000

Call(op, tag, stop_time, sample_time, read_type, get_status, metadata) ==
    [op |-> op, tag |-> tag, stop_time |-> stop_time,
     sample_time |-> sample_time, read_type |-> read_type,
     get_status |-> get_status, metadata |-> metadata]

NoCall == Call("none", << >>, None, 0, "RAW", FALSE, None)

Reply(rows, pids, flags_numeric, cell) ==
    [rows |-> rows, pids |-> pids, flags_numeric |-> flags_numeric,
     cell |-> cell]

NoReply == Reply(<< >>, << >>, FALSE, None)

Query(kind, text) == [kind |-> kind, text |-> text]

\* The end of a call: what it was, what it executed and how it ended.
Ends(c, r, ex, out, err, res) ==
    /\ pc' = "done"
    /\ call' = c
    /\ reply' = r
    /\ executed' = ex
    /\ outcome' = out
    /\ error' = err
    /\ result' = res

Raises(c, r, ex, err) == Ends(c, r, ex, "raised", err, None)

Returns(c, r, ex, res) == Ends(c, r, ex, "returned", "none", res)

Init ==
    /\ handler \in {"aspen", "pi"}
    /\ atmapdef \in IF handler = "aspen" THEN MapdefTables ELSE {<< >>}
    /\ conn = "None"
    /\ cursor = "None"
    /\ pc = "idle"
    /\ call = NoCall
    /\ reply = NoReply
    /\ executed = << >>
    /\ outcome = "none"
    /\ error = "none"
    /\ result = None

\* connect(): pyodbc.connect either opens the connection or raises.
Connect ==
    /\ pc = "idle"
    /\ \E opened \in BOOLEAN :
        LET c == Call("connect", << >>, None, 0, "RAW", FALSE, None)
        IN  IF opened
            THEN /\ conn' = "open"
                 /\ cursor' = "open"
                 /\ Returns(c, NoReply, << >>, None)
            ELSE /\ UNCHANGED <<conn, cursor>>
                 /\ Raises(c, NoReply, << >>, "pyodbc.Error")
    /\ UNCHANGED <<handler, atmapdef>>

\* The caller takes the result; the session is ready for the next call.
Resume ==
    /\ pc = "done"
    /\ pc' = "idle"
    /\ call' = NoCall
    /\ reply' = NoReply
    /\ executed' = << >>
    /\ outcome' = "none"
    /\ error' = "none"
    /\ result' = None
    /\ UNCHANGED <<handler, atmapdef, conn, cursor>>

\* Lines 356-368: the frame AspenHandlerODBC.read_tag returns for the rows
\* read.
Aspen_read_frame(rows, tag, get_status) ==
    LET d0 == read_sql(rows, AspenColumns(get_status))
        d1 == IF get_status THEN status_astype_int(d0) ELSE d0
    IN  rename(tz_localize_UTC(d1), TagString(tag))

\* Line 349-351: the mapping definition read_tag passes to the builder.
Aspen_read_mapdef(tag, mapdefs) ==
    IF IsNone(Mapping(tag)) THEN Some(EmptyDict)
    ELSE Aspen_get_specific_mapdef(mapdefs, Mapping(tag)[1])

AspenReadTag ==
    /\ pc = "idle"
    /\ handler = "aspen"
    /\ UNCHANGED <<handler, atmapdef, conn, cursor>>
    /\ \E tag \in AspenTags, stop_time \in StopTimes,
          sample_time \in AspenSampleTimes, read_type \in ReaderType,
          get_status \in BOOLEAN :
        LET c == Call("read_tag", tag, stop_time, sample_time, read_type,
                      get_status, None)
            resolves == ~IsNone(Mapping(tag))
        IN  IF resolves /\ cursor = "None"
            THEN Raises(c, NoReply, << >>, "AttributeError")
            ELSE
                LET ex1 == IF resolves
                           THEN <<Query("mapdefs",
                                   Aspen_generate_query_get_mapdefs(tag[1]))>>
                           ELSE << >>
                    b == Aspen_generate_read_query(
                             tag[1], Aspen_read_mapdef(tag, atmapdef),
                             StartTime, stop_time, sample_time, read_type,
                             get_status)
                IN  IF b.err # "none" THEN Raises(c, NoReply, ex1, b.err)
                    ELSE IF conn = "None"
                    THEN Raises(c, NoReply, ex1, "AttributeError")
                    ELSE \E rows \in AspenResultSets(get_status) :
                        Returns(c, Reply(rows, << >>, FALSE, None),
                                ex1 \o <<Query("read", b.query)>>,
                                Aspen_read_frame(rows, tag, get_status))

\* Lines 307-311 and 320-324: the mapping definition the lookups resolve.
Aspen_lookup_mapdef(tag, mapdefs) ==
    IF IsNone(Mapping(tag)) THEN Aspen_get_default_mapdef(mapdefs)
    ELSE Aspen_get_specific_mapdef(mapdefs, Mapping(tag)[1])

Aspen_unit_query(tagname, mapdef) ==
    <<"SELECT name, \"" \o mapdef["MAP_Units"] \o "\" as engunit FROM \""
      \o tagname \o "\"">>

Aspen_description_query(tagname, mapdef) ==
    <<"SELECT name, \"" \o mapdef["MAP_Description"] \o "\" as description",
      " FROM \"" \o tagname \o "\"">>

\* What fetchone() gives a lookup: no row, a row with a null, or a text.
LookupCells == {None, Some(None), Some(Some("degC"))}

\* Lines 314-317 and 331-334: the text returned, "" for a null.
Aspen_lookup_text(cell) == IF IsNone(cell[1]) THEN Some("") ELSE cell[1]

\* _get_tag_unit
AspenGetTagUnit ==
    /\ pc = "idle"
    /\ handler = "aspen"
    /\ UNCHANGED <<handler, atmapdef, conn, cursor>>
    /\ \E tag \in AspenTags :
        LET c == Call("_get_tag_unit", tag, None, 0, "RAW", FALSE, None)
            ex1 == <<Query("mapdefs",
                           Aspen_generate_query_get_mapdefs(tag[1]))>>
            mapdef == Aspen_lookup_mapdef(tag, atmapdef)
        IN  IF cursor = "None"
            THEN Raises(c, NoReply, << >>, "AttributeError")
            ELSE IF IsNone(mapdef) THEN Raises(c, NoReply, ex1, "TypeError")
            ELSE \E cell \in LookupCells :
                LET ex2 == ex1 \o <<Query("engunit",
                                      Aspen_unit_query(tag[1], mapdef[1]))>>
                    r2 == Reply(<< >>, << >>, FALSE, cell)
                IN  IF IsNone(cell)
                    THEN Raises(c, r2, ex2, "AttributeError")
                    ELSE Returns(c, r2, ex2, Aspen_lookup_text(cell))

\* _get_tag_description
AspenGetTagDescription ==
    /\ pc = "idle"
    /\ handler = "aspen"
    /\ UNCHANGED <<handler, atmapdef, conn, cursor>>
    /\ \E tag \in AspenTags :
        LET c == Call("_get_tag_description", tag, None, 0, "RAW", FALSE,
                      None)
            ex1 == <<Query("mapdefs",
                           Aspen_generate_query_get_mapdefs(tag[1]))>>
            mapdef == Aspen_lookup_mapdef(tag, atmapdef)
        IN  IF cursor = "None"
            THEN Raises(c, NoReply, << >>, "AttributeError")
            ELSE IF IsNone(mapdef) THEN Raises(c, NoReply, ex1, "TypeError")
            ELSE \E cell \in LookupCells :
                LET ex2 == ex1 \o <<Query("description",
                               Aspen_description_query(tag[1], mapdef[1]))>>
                    r2 == Reply(<< >>, << >>, FALSE, cell)
                IN  IF IsNone(cell)
                    THEN Raises(c, r2, ex2, "AttributeError")
                    ELSE Returns(c, r2, ex2, Aspen_lookup_text(cell))

PI_digitalset_query(name) ==
    <<"SELECT code, offset FROM pids WHERE digitalset='" \o name \o "'">>

\* Lines 604-629: the frame PIHandlerODBC.read_tag returns for a frame with
\* the rows read; digitalset is None when the tag has no digital set.
PI_read_frame(d0, tag, sample_time, read_type, get_status, digitalset, flags_numeric) ==
    LET d1 == IF PI_is_summary(read_type)
              THEN PI_shift_and_drop(d0, sample_time) ELSE d0
        d2 == tz_localize_UTC(d1)
        d3 == IF IsNone(digitalset) THEN d2
              ELSE PI_substitute(d2, digitalset[1], flags_numeric)
        d4 == IF get_status THEN PI_compose_status(d3) ELSE d3
    IN  rename(d4, TagString(tag))

PIReadTag ==
    /\ pc = "idle"
    /\ handler = "pi"
    /\ UNCHANGED <<handler, atmapdef, conn, cursor>>
    /\ \E tag \in PITags, stop_time \in StopTimes,
          sample_time \in SampleTimes, read_type \in ReaderType,
          get_status \in BOOLEAN, metadata \in Metadatas :
        LET c == Call("read_tag", tag, stop_time, sample_time, read_type,
                      get_status, metadata)
            b == PI_generate_read_query(TagString(tag), StartTime, stop_time,
                     sample_time, read_type, get_status, max_rows)
        IN  IF IsNone(metadata) THEN Returns(c, NoReply, << >>, EmptyFrame)
            ELSE IF b.err # "none" THEN Raises(c, NoReply, << >>, b.err)
            ELSE IF conn = "None"
            THEN Raises(c, NoReply, << >>, "AttributeError")
            ELSE \E rows \in PIResultSets(get_status) :
                LET ex1 == <<Query("read", b.query)>>
                    d0 == read_sql(rows, PIColumns(get_status))
                    name == metadata[1].digitalset
                IN  IF PI_is_summary(read_type) /\ Len(rows) = 0
                    THEN Raises(c, Reply(rows, << >>, FALSE, None),
                                ex1, "IndexError")
                    ELSE IF Len(name) > 0
                    THEN \E pids \in DigitalSets :
                         \E flags_numeric \in
                                IF get_status /\ pids # << >> THEN BOOLEAN
                                ELSE {FALSE} :
                            Returns(c,
                                Reply(rows, pids, flags_numeric, None),
                                ex1 \o <<Query("pids",
                                           PI_digitalset_query(name))>>,
                                PI_read_frame(d0, tag, sample_time, read_type,
                                    get_status, Some(pids), flags_numeric))
                    ELSE Returns(c, Reply(rows, << >>, FALSE, None),
                             ex1,
                             PI_read_frame(d0, tag, sample_time, read_type,
                                 get_status, None, FALSE))

----------------------------------------------------------------------------
(* search *)

\* A pattern is the sequence of its characters; str.replace(old, new)
\* replaces every occurrence.
str_replace(s, old, new) ==
    [i \in DOMAIN s |-> IF s[i] = old THEN new ELSE s[i]]

\* The text of a pattern, as a format string embeds it.
RECURSIVE Join(_)
Join(s) == IF s = << >> THEN "" ELSE Head(s) \o Join(Tail(s))

\* Lines 279-280: tag.replace("*", "%"), None for what is not a string.
Aspen_search_pattern(p) ==
    IF IsNone(p) THEN None ELSE Some(str_replace(p[1], "*", "%"))

\* _generate_query_get_mapdef_for_search, for the tag already translated.
Aspen_generate_query_get_mapdef_for_search(tag) ==
    <<"SELECT DISTINCT a.name as tagname, m.NAME, m.MAP_DefinitionRecord,",
      "m.MAP_IsDefault, m.MAP_Description, m.MAP_Units, m.MAP_Base, m.MAP_Range",
      "FROM all_records a",
      "LEFT JOIN atmapdef m ON a.definition = m.MAP_DefinitionRecord",
      "WHERE a.name",
      IF "%" \in Range(tag) THEN "LIKE '" \o Join(tag) \o "'"
      ELSE "='" \o Join(tag) \o "'",
      "AND m.MAP_IsDefault = 'TRUE'">>

\* _generate_query_search_tag, for a mapping with a definition record.
Aspen_generate_query_search_tag(mapdef, desc) ==
    <<"SELECT \"" \o mapdef.MAP_Description \o "\"",
      "FROM " \o mapdef.MAP_DefinitionRecord[1],
      "WHERE name = '" \o mapdef.tagname \o "'">>
    \o (IF IsNone(desc) THEN << >>
        ELSE <<"AND " \o mapdef.MAP_Description \o " like '"
                \o Join(desc[1]) \o "'">>)

\* PIHandlerODBC.generate_search_query
PI_generate_search_query(tag, desc) ==
    <<"SELECT tag, descriptor as description FROM pipoint.pipoint2 WHERE">>
    \o (IF ~IsNone(tag)
        THEN <<"tag LIKE '" \o Join(str_replace(tag[1], "*", "%")) \o "'">>
        ELSE << >>)
    \o (IF ~IsNone(tag) /\ ~IsNone(desc) THEN <<"AND">> ELSE << >>)
    \o (IF ~IsNone(desc)
        THEN <<"descriptor LIKE '" \o Join(str_replace(desc[1], "*", "%"))
                \o "'">>
        ELSE << >>)

\* The patterns a caller searches with.
TagPatterns ==
    {None, Some(<<"A", "B">>), Some(<<"A", "B", "*">>),
     Some(<<"*", "B", "*">>)}

DescPatterns == {None, Some(<<"p", "*">>), Some(<<"*", "p", "*">>)}

\* A row of the mapping query of search, with what fetchone() gives the
\* description query of its tag.
SearchRow(tagname, defrec, hit) ==
    [tagname |-> tagname, MAP_DefinitionRecord |-> defrec,
     MAP_Description |-> "IP_DESCRIPTION", hit |-> hit]

AspenSearchRows ==
    {<< >>,
     <<SearchRow("AB", None, None)>>,
     <<SearchRow("AB", Some("IP_AnalogDef"), None)>>,
     <<SearchRow("AB", Some("IP_AnalogDef"), Some(None))>>,
     <<SearchRow("AB", Some("IP_AnalogDef"), Some(Some("pump"))),
       SearchRow("AB", None, None),
       SearchRow("AB2", Some("IP_AnalogDef"), Some(Some("pump")))>>}

\* The rows fetchall() gives a PI search.
PISearchRows == {<< >>, <<<<"AB", "pump">>>>}

\* Lines 284-299: the loop over the tags of the mapping rows, the first
\* row of each tag deciding; the queries executed and the matches found.
RECURSIVE Aspen_search_loop(_, _, _, _)
Aspen_search_loop(rows, i, seen, desc) ==
    IF i > Len(rows) THEN [ex |-> << >>, res |-> {}]
    ELSE LET row == rows[i]
             rest == Aspen_search_loop(rows, i + 1,
                                       seen \cup {row.tagname}, desc)
         IN  IF row.tagname \in seen \/ IsNone(row.MAP_DefinitionRecord)
             THEN rest
             ELSE [ex |-> <<Query("search_tag",
                              Aspen_generate_query_search_tag(row, desc))>>
                          \o rest.ex,
                   res |-> (IF IsNone(row.hit) THEN {}
                            ELSE {<<row.tagname,
                                    IF IsNone(row.hit[1]) THEN ""
                                    ELSE row.hit[1][1]>>})
                           \cup rest.res]

SearchCall(tag, desc) ==
    [op |-> "search", tag |-> tag, desc |-> desc, stop_time |-> None,
     sample_time |-> 0, read_type |-> "RAW", get_status |-> FALSE,
     metadata |-> None]

\* AspenHandlerODBC.search
AspenSearch ==
    /\ pc = "idle"
    /\ handler = "aspen"
    /\ UNCHANGED <<handler, atmapdef, conn, cursor>>
    /\ \E tag \in TagPatterns, desc \in DescPatterns :
        LET c == SearchCall(tag, desc)
            t == Aspen_search_pattern(tag)
            d == Aspen_search_pattern(desc)
        IN  IF IsNone(tag) THEN Raises(c, NoReply, << >>, "ValueError")
            ELSE IF cursor = "None"
            THEN Raises(c, NoReply, << >>, "AttributeError")
            ELSE \E rows \in AspenSearchRows :
                LET ex1 == <<Query("search",
                       Aspen_generate_query_get_mapdef_for_search(t[1]))>>
                    loop == Aspen_search_loop(rows, 1, {}, d)
                IN  Returns(c, Reply(rows, << >>, FALSE, None),
                            ex1 \o loop.ex, loop.res)

\* PIHandlerODBC.search
PISearch ==
    /\ pc = "idle"
    /\ handler = "pi"
    /\ UNCHANGED <<handler, atmapdef, conn, cursor>>
    /\ \E tag \in TagPatterns, desc \in DescPatterns :
        LET c == SearchCall(tag, desc)
        IN  IF cursor = "None"
            THEN Raises(c, NoReply, << >>, "AttributeError")
            ELSE \E rows \in PISearchRows :
                Returns(c, Reply(rows, << >>, FALSE, None),
                        <<Query("search",
                                PI_generate_search_query(tag, desc))>>,
                        rows)

----------------------------------------------------------------------------
(* Metadata lookups of the PI handler, and query_sql of both handlers *)

\* AspenHandlerODBC._get_tag_metadata: returns None, and asks nothing.
AspenGetTagMetadata ==
    /\ pc = "idle"
    /\ handler = "aspen"
    /\ UNCHANGED <<handler, atmapdef, conn, cursor>>
    /\ \E tag \in AspenTags :
        Returns(Call("_get_tag_metadata", tag, None, 0, "RAW", FALSE, None),
                NoReply, << >>, None)

PI_metadata_query(tag) ==
    <<"SELECT digitalset, engunits, descriptor FROM pipoint.pipoint2 WHERE tag='"
      \o tag \o "'">>

PI_description_query(tag) ==
    <<"SELECT descriptor FROM pipoint.pipoint2 WHERE tag='" \o tag \o "'">>

PI_unit_query(tag) ==
    <<"SELECT engunits FROM pipoint.pipoint2 WHERE tag='" \o tag \o "'">>

\* PIHandlerODBC._get_tag_metadata: None when fetchone() gives no row.
PIGetTagMetadata ==
    /\ pc = "idle"
    /\ handler = "pi"
    /\ UNCHANGED <<handler, atmapdef, conn, cursor>>
    /\ \E tag \in PITags :
        LET c == Call("_get_tag_metadata", tag, None, 0, "RAW", FALSE, None)
        IN  IF cursor = "None"
            THEN Raises(c, NoReply, << >>, "AttributeError")
            ELSE \E res \in Metadatas :
                Returns(c, Reply(<< >>, << >>, FALSE, res),
                        <<Query("metadata", PI_metadata_query(tag[1]))>>,
                        res)

\* Lines 551-555 and 557-561: the first column of the row fetched; no row
\* is a TypeError.
PI_lookup(c, kind, text) ==
    IF cursor = "None" THEN Raises(c, NoReply, << >>, "AttributeError")
    ELSE \E cell \in LookupCells :
        LET r == Reply(<< >>, << >>, FALSE, cell)
            ex == <<Query(kind, text)>>
        IN  IF IsNone(cell) THEN Raises(c, r, ex, "TypeError")
            ELSE Returns(c, r, ex, cell[1])

\* PIHandlerODBC._get_tag_description
PIGetTagDescription ==
    /\ pc = "idle"
    /\ handler = "pi"
    /\ UNCHANGED <<handler, atmapdef, conn, cursor>>
    /\ \E tag \in PITags :
        PI_lookup(Call("_get_tag_description", tag, None, 0, "RAW", FALSE,
                       None),
                  "description", PI_description_query(tag[1]))

\* PIHandlerODBC._get_tag_unit
PIGetTagUnit ==
    /\ pc = "idle"
    /\ handler = "pi"
    /\ UNCHANGED <<handler, atmapdef, conn, cursor>>
    /\ \E tag \in PITags :
        PI_lookup(Call("_get_tag_unit", tag, None, 0, "RAW", FALSE, None),
                  "engunit", PI_unit_query(tag[1]))

\* The queries a caller hands to query_sql.
SqlTexts == {"SELECT 1", "SELECT name FROM all_records"}

QuerySqlCall(query, parse) ==
    [op |-> "query_sql", tag |-> << >>, query |-> query, parse |-> parse,
     stop_time |-> None, sample_time |-> 0, read_type |-> "RAW",
     get_status |-> FALSE, metadata |-> None]

\* query_sql with a connection that needs no opening.
query_sql_unconnected(conn_, query, parse) ==
    [err |-> "none", query |-> <<Query("sql", <<query>>)>>]

\* query_sql, the same in both handlers: self.conn.cursor() or
\* pd.read_sql(query, self.conn), each failing on a conn that is None.
query_sql(conn_, query, parse) ==
    IF conn_ = "None" THEN Raise("AttributeError")
    ELSE [err |-> "none", query |-> <<Query("sql", <<query>>)>>]

\* What query_sql returns: the cursor, or the rows as a table.
QuerySqlResults(parse) ==
    IF parse THEN {Some(<<"table", n>>) : n \in 0..MaxRows}
    ELSE {Some(<<"cursor">>)}

QuerySql ==
    \E query \in SqlTexts, parse \in BOOLEAN :
        LET c == QuerySqlCall(query, parse)
            q == query_sql(conn, query, parse)
        IN  IF q.err # "none" THEN Raises(c, NoReply, << >>, q.err)
            ELSE \E res \in QuerySqlResults(parse) :
                Returns(c, NoReply, q.query, res)

\* AspenHandlerODBC.query_sql
AspenQuerySql ==
    /\ pc = "idle"
    /\ handler = "aspen"
    /\ UNCHANGED <<handler, atmapdef, conn, cursor>>
    /\ QuerySql

\* PIHandlerODBC.query_sql
PIQuerySql ==
    /\ pc = "idle"
    /\ handler = "pi"
    /\ UNCHANGED <<handler, atmapdef, conn, cursor>>
    /\ QuerySql

Next ==
    \/ Connect
    \/ AspenReadTag
    \/ AspenGetTagUnit
    \/ AspenGetTagDescription
    \/ PIReadTag
    \/ AspenSearch
    \/ PISearch
    \/ AspenGetTagMetadata
    \/ PIGetTagMetadata
    \/ PIGetTagDescription
    \/ PIGetTagUnit
    \/ AspenQuerySql
    \/ PIQuerySql
    \/ Resume

Spec == Init /\ [][Next]_vars

----------------------------------------------------------------------------
(* Properties *)

ReadDone == pc = "done" /\ call.op = "read_tag"

ExecutedKinds == {executed[i].kind : i \in DOMAIN executed}

\* The text of the read query the call executed.
ReadText == (CHOOSE q \in Range(executed) : q.kind = "read").text

\* The call got as far as the query builder.
ReachedBuilder ==
    /\ ReadDone
    /\ handler = "aspen" => (Len(call.tag) = 1 \/ cursor = "open")
    /\ handler = "pi" => ~IsNone(call.metadata)

\* The stop time is given exactly when the read type needs one.
StopFitsType == IsNone(call.stop_time) <=> call.read_type = "SNAPSHOT"

AggregateTypes == {"MIN", "MAX", "AVG", "VAR", "STD", "RNG"}

\* The requests section 4.1 of the specification flags invalid on Aspen.
AspenFlaggedInvalid ==
    \/ call.read_type \in
           {"COUNT", "GOOD", "NOTGOOD", "TOTAL", "SUM", "SHAPEPRESERVING"}
    \/ call.read_type = "SNAPSHOT" /\ call.get_status
    \/ call.read_type = "SNAPSHOT" /\ ~IsNone(call.stop_time)
    \/ call.read_type \in AggregateTypes /\ call.sample_time <= 0

\* C1: an Aspen read_tag of a request flagged invalid raises, and has
\* executed no query at all (no mapping query, no read query) before it
\* raises.
C1_NoQueryBeforeRejection ==
    (ReadDone /\ handler = "aspen" /\ AspenFlaggedInvalid)
        => (outcome = "raised" /\ executed = << >>)

SnapshotWithStop ==
    ReadDone /\ call.read_type = "SNAPSHOT" /\ ~IsNone(call.stop_time)

\* C2 as stated: on both backends a SNAPSHOT read with a stop time raises,
\* whatever the tag, the status flag and the metadata (None included).
C2_SnapshotWithStopAlwaysRaises == SnapshotWithStop => outcome = "raised"

\* C2 as amended: a SNAPSHOT read with a stop time raises and executes no
\* read query on Aspen, and on PI when the metadata is not None; a PI read
\* whose metadata is None returns the empty frame and executes nothing.
C2_SnapshotWithStopRaisesUnlessNoMetadata ==
    SnapshotWithStop =>
        IF handler = "pi" /\ IsNone(call.metadata)
        THEN outcome = "returned" /\ result = EmptyFrame /\ executed = << >>
        ELSE outcome = "raised" /\ "read" \notin ExecutedKinds

C2_Witness ==
    /\ SnapshotWithStop
    /\ handler = "pi"
    /\ conn = "open"
    /\ ~IsNone(call.metadata)
    /\ error = "NotImplementedError"

\* C3: on both backends an aggregate or interpolated read with a sample
\* interval that is not greater than 0 raises and yields no query; for
\* SAMPLED and SNAPSHOT the interval is ignored, so an otherwise valid
\* request gets its query whatever the interval.
C3_NonPositiveIntervalRaises ==
    /\ (ReachedBuilder /\ call.read_type \in AggregateTypes \cup {"INT"}
        /\ call.sample_time <= 0)
           => (outcome = "raised" /\ "read" \notin ExecutedKinds)
    /\ (ReachedBuilder /\ call.read_type \in {"SAMPLED", "SNAPSHOT"}
        /\ StopFitsType /\ conn = "open"
        /\ ~(handler = "aspen" /\ call.read_type = "SNAPSHOT"
             /\ call.get_status))
           => "read" \in ExecutedKinds

\* The source each read type selects from, as section 4.3 of the
\* specification names them.
PISourceTable(read_type) ==
    CASE read_type = "INT" -> "[piarchive]..[piinterp2]"
      [] read_type = "MIN" -> "[piarchive]..[pimin]"
      [] read_type = "MAX" -> "[piarchive]..[pimax]"
      [] read_type = "RNG" -> "[piarchive]..[pirange]"
      [] read_type = "AVG" -> "[piarchive]..[piavg]"
      [] read_type \in {"VAR", "STD"} -> "[piarchive]..[pistd]"
      [] read_type \in {"GOOD", "NOTGOOD", "COUNT"} -> "[piarchive]..[picount]"
      [] read_type \in {"TOTAL", "SUM"} -> "[piarchive]..[pitotal]"
      [] read_type = "SNAPSHOT" -> "[piarchive]..[pisnapshot]"
      [] read_type = "SHAPEPRESERVING" -> "[piarchive]..[piplot]"
      [] read_type \in {"RAW", "SAMPLED"} -> "[piarchive]..[picomp2]"

PIFromFragment(read_type) ==
    "time FROM " \o PISourceTable(read_type) \o " WHERE tag='"
    \o TagString(call.tag) \o "'"

PIWellFormedRead ==
    /\ ReadDone
    /\ handler = "pi"
    /\ conn = "open"
    /\ ~IsNone(call.metadata)
    /\ StopFitsType

PIRejectedTypes ==
    {"COUNT", "GOOD", "NOTGOOD", "TOTAL", "SUM", "SHAPEPRESERVING"}

C5_EmptyResultIsNotAnError ==
    (ReadDone /\ "read" \in ExecutedKinds /\ reply.rows = << >>)
        => (outcome = "returned" /\ Len(result.index) = 0)

\* A PI read that executed its query and returned a frame.
PIReadReturned ==
    /\ ReadDone
    /\ handler = "pi"
    /\ "read" \in ExecutedKinds
    /\ outcome = "returned"

ValueColumn == TagString(call.tag)

StatusColumn == TagString(call.tag) \o "::status"

\* The number of leading rows the read removed: output row i is input row
\* i + Removed.
Removed == Len(reply.rows) - Len(result.data)

DistinctAscending(rows) ==
    \A i \in 1..(Len(rows) - 1) : rows[i].time < rows[i + 1].time

\* The offset of the digital set's code equal to v, or v when there is none.
DigitalValue(v) ==
    IF \E p \in Range(reply.pids) : p[1] = v
    THEN (CHOOSE p \in Range(reply.pids) : p[1] = v)[2]
    ELSE v

PIAggregateRead ==
    /\ ReadDone
    /\ handler = "pi"
    /\ "read" \in ExecutedKinds
    /\ call.read_type \in AggregateTypes
    /\ Len(reply.rows) >= 1
    /\ DistinctAscending(reply.rows)

\* Rows 2..n of an aggregate read come out shifted by the sample interval,
\* and a read of another type keeps every row and timestamp.
RowsAndTimestamps ==
    /\ PIAggregateRead =>
        /\ outcome = "returned"
        /\ Len(result.index) = Len(reply.rows) - 1
        /\ \A i \in DOMAIN result.index :
               result.index[i] = reply.rows[i + 1].time - call.sample_time
    /\ (PIReadReturned /\ call.read_type \notin AggregateTypes) =>
           result.index = [i \in DOMAIN reply.rows |-> reply.rows[i].time]

\* C6 as stated: for a PI aggregate read of n >= 1 rows with ascending
\* distinct timestamps the series has the n-1 rows 2..n, each shifted by
\* the sample interval and with its value unchanged; other read types
\* shift no timestamp and remove no row.
C6_AggregateShiftKeepsValues ==
    /\ RowsAndTimestamps
    /\ PIAggregateRead =>
           \A i \in DOMAIN result.data :
               result.data[i][ValueColumn] = reply.rows[i + 1].value

\* C6 as amended: the same, with the value of each row unchanged but for
\* the digital-set substitution: a value equal to a code of the tag's
\* digital set comes out as that code's offset.
C6_AggregateShiftKeepsSubstitutedValues ==
    /\ RowsAndTimestamps
    /\ PIAggregateRead =>
           \A i \in DOMAIN result.data :
               result.data[i][ValueColumn]
                   = DigitalValue(reply.rows[i + 1].value)

C6_Witness ==
    /\ PIAggregateRead
    /\ outcome = "returned"
    /\ Len(reply.rows) = 2
    /\ call.sample_time > 0
    /\ Len(result.index) = 1

\* C7: with status requested every output row's status is
\* questionable + 2*(rawStatus != 0) + 4*substituted of the backend's row,
\* the frame has the value column and "<tag>::status" only; without status
\* it has the value column only.
C7_CompositeStatus ==
    PIReadReturned =>
        IF call.get_status
        THEN /\ result.cols = {ValueColumn, StatusColumn}
             /\ \A i \in DOMAIN result.data :
                    LET row == reply.rows[i + Removed]
                    IN  result.data[i][StatusColumn]
                            = row.questionable
                              + 2 * (IF row.status # 0 THEN 1 ELSE 0)
                              + 4 * row.substituted
        ELSE result.cols = {ValueColumn}

\* C8: with a non-empty digital set every value equal to a code comes out
\* as that code's offset and every other value unchanged, whatever the
\* order of the (code, offset) rows; with an empty digital-set name no
\* digital-set query is executed and no value changes.
C8_DigitalSetSubstitution ==
    PIReadReturned =>
        IF call.metadata[1].digitalset # ""
        THEN /\ "pids" \in ExecutedKinds
             /\ \A i \in DOMAIN result.data :
                    result.data[i][ValueColumn]
                        = DigitalValue(reply.rows[i + Removed].value)
        ELSE /\ "pids" \notin ExecutedKinds
             /\ \A i \in DOMAIN result.data :
                    result.data[i][ValueColumn]
                        = reply.rows[i + Removed].value

C8_Witness ==
    /\ PIReadReturned
    /\ reply.pids = <<<<1, 5>>, <<0, 1>>>>
    /\ Len(reply.rows) = 2
    /\ reply.rows[1].value = 0
    /\ reply.rows[2].value = 2
    /\ Len(result.data) = 2
    /\ result.data[1][ValueColumn] = 1
    /\ result.data[2][ValueColumn] = 2

\* No mapping of the tag matches the suffix (or, without a suffix, none is
\* flagged default).
NoMatchingMapping ==
    IF Len(call.tag) = 2
    THEN \A m \in Range(atmapdef) : Lower(m.NAME) # Lower(call.tag[2])
    ELSE \A m \in Range(atmapdef) : m.MAP_IsDefault # "TRUE"

\* C9: an Aspen operation that resolves a mapping and finds none fails, and
\* executes nothing after the mapping query: no read or lookup query.
C9_UnresolvedMappingFails ==
    (/\ pc = "done"
     /\ handler = "aspen"
     /\ call.op \in {"read_tag", "_get_tag_unit", "_get_tag_description"}
     /\ "mapdefs" \in ExecutedKinds
     /\ NoMatchingMapping)
        => (outcome = "raised" /\ ExecutedKinds = {"mapdefs"})

\* The mapping the tag identifier selects: the named one, or the default.
SelectedMapping ==
    IF Len(call.tag) = 2
    THEN Aspen_get_specific_mapdef(atmapdef, call.tag[2])
    ELSE Aspen_get_default_mapdef(atmapdef)

\* C10: an Aspen read selects the named mapping or, without a suffix, the
\* default mapping; a non-SNAPSHOT query then filters on the mapping's
\* history-value field and a SNAPSHOT query projects the mapping's
\* current-timestamp and current-value columns.
C10_ReadUsesSelectedMapping ==
    (/\ ReadDone
     /\ handler = "aspen"
     /\ "read" \in ExecutedKinds
     /\ ~IsNone(SelectedMapping))
        => LET m == SelectedMapping[1]
           IN  IF call.read_type # "SNAPSHOT"
               THEN ("AND FIELD_ID = FT('" \o m.MAP_HistoryValue \o "')")
                        \in Range(ReadText)
               ELSE ReadText[1]
                        = "SELECT ISO8601(" \o m.MAP_CurrentTimeStamp
                          \o ") AS \"time\", " \o m.MAP_CurrentValue
                          \o " AS \"value\""

\* An Aspen read_tag whose request the builder accepted: the read query it
\* built was executed.
AspenAcceptedRead ==
    ReadDone /\ handler = "aspen" /\ "read" \in ExecutedKinds

\* The value columns the Aspen builder can project.
AspenValueNames ==
    {"min", "max", "rng", "avg", "var", "std", "good", "ng", "sum", "value",
     "IP_INPUT_VALUE", MapM1.MAP_CurrentValue, MapAux.MAP_CurrentValue}

\* The read query projects the timestamp column ts.
AspenProjectsTs(ts) ==
    \E v \in AspenValueNames :
        ReadText[1] = "SELECT ISO8601(" \o ts \o ") AS \"time\", " \o v
                      \o " AS \"value\""

AspenRequestFragment(code) == "AND (request = " \o code \o ")"

\* The request filters of the read query.
AspenRequestFilters ==
    {f \in Range(ReadText) :
        \E code \in {"0", "1", "3", "4", "7", "None"} :
            f = AspenRequestFragment(code)}

AspenFromFragment == CHOOSE f \in Range(ReadText) :
    f \in {"FROM history", "FROM aggregates",
           "FROM \"" \o call.tag[1] \o "\""}

\* C11: every read query the Aspen builder emits reads SAMPLED and INT from
\* history with request code 4 and 7, SNAPSHOT from the double-quoted tag
\* name with no request filter, and every other accepted type from
\* aggregates with request code 1; the timestamp column is ts_start exactly
\* when the source is aggregates and ts for history; request codes 0 and 3
\* never appear.
C11_AspenSourceAndRequestCode ==
    AspenAcceptedRead =>
        /\ call.read_type \in
               {"SAMPLED", "INT", "SNAPSHOT", "RAW"} \cup AggregateTypes
        /\ call.read_type = "SAMPLED" =>
               /\ AspenFromFragment = "FROM history"
               /\ AspenRequestFilters = {AspenRequestFragment("4")}
        /\ call.read_type = "INT" =>
               /\ AspenFromFragment = "FROM history"
               /\ AspenRequestFilters = {AspenRequestFragment("7")}
        /\ call.read_type = "SNAPSHOT" =>
               /\ AspenFromFragment = "FROM \"" \o call.tag[1] \o "\""
               /\ AspenRequestFilters = {}
        /\ call.read_type \in {"RAW"} \cup AggregateTypes =>
               /\ AspenFromFragment = "FROM aggregates"
               /\ AspenRequestFilters = {AspenRequestFragment("1")}
        /\ AspenProjectsTs("ts_start")
               <=> AspenFromFragment = "FROM aggregates"
        /\ AspenFromFragment = "FROM history" => AspenProjectsTs("ts")
        /\ AspenRequestFragment("0") \notin Range(ReadText)
        /\ AspenRequestFragment("3") \notin Range(ReadText)

C11_Witness ==
    /\ AspenAcceptedRead
    /\ call.read_type = "AVG"
    /\ AspenFromFragment = "FROM aggregates"
    /\ AspenRequestFragment("1") \in Range(ReadText)
    /\ AspenProjectsTs("ts_start")

AspenPeriodFragment(n) == "AND (period = " \o ToString(n) \o ")"

\* The period filters of the read query.
AspenPeriodFilters ==
    {f \in Range(ReadText) :
        \E n \in 0..(10 * (TicksPerSecond + 1)) : f = AspenPeriodFragment(n)}

\* The sample interval of the call in whole seconds, fraction dropped.
WholeSeconds == call.sample_time \div TicksPerSecond

\* The wall-clock second of a timestamp in UTC.
UTCSecond(t) == t.inst \div TicksPerSecond

AspenBoundsFragment ==
    "AND (ts BETWEEN '1970-01-01T00:00:" \o Pad2(UTCSecond(StartTime))
    \o "Z' AND '1970-01-01T00:00:" \o Pad2(UTCSecond(call.stop_time[1]))
    \o "Z')"

\* C12: an Aspen read query has a period filter exactly when the read type
\* is neither RAW nor SNAPSHOT, with value 10 times the sample interval in
\* whole seconds, and 0 for SAMPLED; a non-SNAPSHOT query has the timestamp
\* bound of start and stop in UTC and ends with ORDER BY ts; a SNAPSHOT
\* query is only the SELECT and FROM fragments.
C12_AspenPeriodAndBounds ==
    AspenAcceptedRead =>
        /\ AspenPeriodFilters =
               IF call.read_type \in {"RAW", "SNAPSHOT"} THEN {}
               ELSE IF call.read_type = "SAMPLED"
               THEN {AspenPeriodFragment(0)}
               ELSE {AspenPeriodFragment(10 * WholeSeconds)}
        /\ call.read_type # "SNAPSHOT" =>
               /\ AspenBoundsFragment \in Range(ReadText)
               /\ ReadText[Len(ReadText)] = "ORDER BY ts"
        /\ call.read_type = "SNAPSHOT" =>
               /\ Len(ReadText) = 2
               /\ ReadText[2] = AspenFromFragment
               /\ AspenRequestFilters = {}

C12_Witness ==
    /\ AspenAcceptedRead
    /\ call.read_type = "AVG"
    /\ call.sample_time = TicksPerSecond + 1
    /\ AspenPeriodFragment(10) \in Range(ReadText)
    /\ WallSecond(StartTime) # UTCSecond(StartTime)
    /\ AspenBoundsFragment \in Range(ReadText)

\* A search that executed its search query.
SearchDone ==
    pc = "done" /\ call.op = "search" /\ "search" \in ExecutedKinds

SearchText == (CHOOSE q \in Range(executed) : q.kind = "search").text

\* The SQL text of each pattern of the model: every * written as %.
SqlPattern(p) ==
    CASE p = <<"A", "B">> -> "AB"
      [] p = <<"A", "B", "*">> -> "AB%"
      [] p = <<"*", "B", "*">> -> "%B%"
      [] p = <<"p", "*">> -> "p%"
      [] p = <<"*", "p", "*">> -> "%p%"

\* The conditions of a PI search, one for each pattern given.
PISearchConditions ==
    (IF IsNone(call.tag) THEN << >>
     ELSE <<"tag LIKE '" \o SqlPattern(call.tag[1]) \o "'">>)
    \o (IF ~IsNone(call.tag) /\ ~IsNone(call.desc) THEN <<"AND">>
        ELSE << >>)
    \o (IF IsNone(call.desc) THEN << >>
        ELSE <<"descriptor LIKE '" \o SqlPattern(call.desc[1]) \o "'">>)

\* The conditions on the tag name of an Aspen search.
AspenSearchConditions ==
    <<"WHERE a.name",
      IF "*" \in Range(call.tag[1])
      THEN "LIKE '" \o SqlPattern(call.tag[1]) \o "'"
      ELSE "='" \o SqlPattern(call.tag[1]) \o "'",
      "AND m.MAP_IsDefault = 'TRUE'">>

\* Every pattern given is in the query text with % for each *.
SearchWildcardsTranslated ==
    IF handler = "pi"
    THEN \A i \in DOMAIN PISearchConditions :
             PISearchConditions[i] \in Range(SearchText)
    ELSE /\ AspenSearchConditions[2] \in Range(SearchText)
         /\ ~IsNone(call.desc) =>
                \A q \in Range(executed) :
                    q.kind = "search_tag" =>
                        q.text[Len(q.text)]
                            = "AND IP_DESCRIPTION like '"
                              \o SqlPattern(call.desc[1]) \o "'"

\* The WHERE of the search query is followed by a condition for each
\* pattern given, joined by AND, and by at least one condition.
SearchWhereComplete ==
    IF handler = "pi"
    THEN /\ Tail(SearchText) = PISearchConditions
         /\ Tail(SearchText) # << >>
    ELSE SubSeq(SearchText, Len(SearchText) - 2, Len(SearchText))
             = AspenSearchConditions

\* C13: in every search query executed, on either backend, each * of the
\* tag and description patterns is written as %, and the WHERE clause is
\* complete: a condition for each pattern given, joined by AND, and never a
\* WHERE with no condition.
C13_SearchQueryWellFormed ==
    SearchDone => (SearchWildcardsTranslated /\ SearchWhereComplete)

\* An operation other than connect has ended on a session that connect()
\* has not opened: conn is set by a successful connect only, and never
\* reset.
DoneBeforeConnect ==
    pc = "done" /\ call.op \notin {"connect", "none"} /\ conn = "None"

\* The calls that need no query for what they return: a PI read of a tag
\* without metadata, and the Aspen metadata lookup.
NeedsNoQuery ==
    \/ handler = "pi" /\ call.op = "read_tag" /\ IsNone(call.metadata)
    \/ handler = "aspen" /\ call.op = "_get_tag_metadata"

PIDigitalStatusRead ==
    /\ PIReadReturned
    /\ call.get_status
    /\ reply.pids # << >>

\* The frame the same call returns for the same rows when the digital set
\* is empty.
FrameWithoutDigitalSet ==
    PI_read_frame(read_sql(reply.rows, PIColumns(TRUE)), call.tag,
                  call.sample_time, call.read_type, TRUE, None, FALSE)

\* C15: in a PI read with status and a non-empty digital set the
\* substitution changes the value column only: every row's status is the
\* one the same rows give with an empty digital set, whatever the codes and
\* offsets are.
C15_SubstitutionKeepsStatus ==
    PIDigitalStatusRead =>
        /\ DOMAIN result.data = DOMAIN FrameWithoutDigitalSet.data
        /\ \A i \in DOMAIN result.data :
               result.data[i][StatusColumn]
                   = FrameWithoutDigitalSet.data[i][StatusColumn]

====
